---- MODULE Spec2Model ----
(***************************************************************************)
(* A model of the AppFlow tracer of packages/appflow_tracer: the trace     *)
(* hook (lib/trace_utils.py), the structured logger (lib/log_utils.py),    *)
(* the path classifier (lib/file_utils.py) and the serializer              *)
(* (lib/serialize_utils.py).                                               *)
(*                                                                         *)
(* Python values are tagged records.  An operation that can raise returns  *)
(* a record whose field "raised" names the exception class that leaves it  *)
(* ("none" when it returns normally).                                      *)
(***************************************************************************)
EXTENDS Integers, Sequences, FiniteSets, TLC

VARIABLES traceHook, settraceCalls, streak, streakHook, last

vars == <<traceHook, settraceCalls, streak, streakHook, last>>

(***************************************************************************)
(* Bounds of the model.                                                    *)
(***************************************************************************)
MaxSettrace == 2
MaxStreak == 3
MaxParts == 4
MaxStrLen == 2
MaxListLen == 2
MaxLineLen == 5
MaxFiles == 5
MaxSetup == 3
MaxChildren == 4

(***************************************************************************)
(* Python dictionaries are functions; d.get(k, default).                   *)
(***************************************************************************)
Get(d, k, default) == IF k \in DOMAIN d THEN d[k] ELSE default

EmptyDict == [k \in {} |-> TRUE]

(***************************************************************************)
(* The configuration records handed to the core.  A configs argument is    *)
(* None or a dict; a dict may lack any of its sections, and a section may  *)
(* lack any of its keys.                                                   *)
(***************************************************************************)
ConfigNone == [kind |-> "None", d |-> EmptyDict]

ConfigDict(d) == [kind |-> "dict", d |-> d]

LoggingSections ==
    { [enable |-> TRUE, package_name |-> "pkg", module_name |-> "mod"],
      [enable |-> FALSE, package_name |-> "pkg", module_name |-> "mod"],
      [enable |-> TRUE] }

TracingSections == { EmptyDict, [enable |-> TRUE], [enable |-> FALSE] }

ColorSections == { [RESET |-> "ESC[0m", CALL |-> "ESC[92m", RETURN |-> "plain"] }

Sections(name) ==
    IF name = "logging" THEN LoggingSections
    ELSE IF name = "tracing" THEN TracingSections
    ELSE ColorSections

SectionNames == {"logging", "tracing", "colors"}

ConfigDicts ==
    UNION { [ks -> UNION {Sections(k) : k \in ks}] : ks \in SUBSET SectionNames }

WellSectioned(d) == \A k \in DOMAIN d : d[k] \in Sections(k)

Configs ==
    {ConfigNone} \cup {ConfigDict(d) : d \in {x \in ConfigDicts : WellSectioned(x)}}

\* Python truthiness of a configs argument: None and {} are falsy.
Truthy(configs) == configs.kind = "dict" /\ DOMAIN configs.d # {}

(***************************************************************************)
(* Module globals: the names a module's functions can resolve.  A name     *)
(* that is not a global of the module (nor a builtin) raises NameError     *)
(* when it is read.                                                        *)
(***************************************************************************)
TraceUtilsGlobals ==
    {"sys", "json", "inspect", "logging", "Callable", "FrameType",
     "log_utils", "file_utils", "serialize_utils", "start_tracing", "trace_all"}

LogUtilsGlobals ==
    {"json", "logging", "datetime", "log_message", "output_logfile", "output_console"}

(***************************************************************************)
(* Python values that reach the serializer and the logger's payload.       *)
(* None, bool, int, str, list and dict are the JSON-encodable ones; a dict *)
(* is an insertion-ordered sequence of <<key, value>> pairs with distinct  *)
(* str keys.  The others have no JSON encoding: a plain object (encodable  *)
(* only through a default= hook), a self-containing list, a dict with a    *)
(* tuple key, and a nesting deeper than the interpreter's recursion limit. *)
(***************************************************************************)
JNull == [t |-> "null", v |-> <<>>]
JBool(b) == [t |-> "bool", v |-> b]
JInt(n) == [t |-> "int", v |-> n]
JStr(s) == [t |-> "str", v |-> s]
JList(xs) == [t |-> "list", v |-> xs]
JDict(ps) == [t |-> "dict", v |-> ps]
PyObject == [t |-> "object", v |-> <<>>]
PyCircular == [t |-> "circular", v |-> <<>>]
PyTupleKey == [t |-> "tuplekey", v |-> <<>>]
PyDeep == [t |-> "deep", v |-> <<>>]

QUOTE == "\""
BSLASH == "\\"
NL == "\n"

SeqsUpTo(S, n) == UNION { [1..k -> S] : k \in 0..n }

StrChars == {"a", "1", QUOTE}
Strings == SeqsUpTo(StrChars, MaxStrLen)
IntValues == {0, 7, 12, -3}

Scalars ==
    {JNull, JBool(TRUE), JBool(FALSE)}
        \cup {JInt(n) : n \in IntValues} \cup {JStr(s) : s \in Strings}

ListItems ==
    {JNull, JBool(TRUE), JInt(12), JStr(<<"a">>), JList(<<JInt(7)>>),
     JDict(<<<< <<"k">>, JInt(0) >>>>)}

Lists == {JList(xs) : xs \in SeqsUpTo(ListItems, MaxListLen)}

DictValues == {JNull, JInt(7), JStr(<<"1">>), JList(<<JBool(FALSE), JInt(0)>>)}

Dicts ==
    {JDict(<<>>)}
        \cup {JDict(<<<< <<"k">>, x >>>>) : x \in DictValues}
        \cup {JDict(<<<< <<"k">>, x >>, << <<"a", "1">>, y >>>>) : x, y \in DictValues}

JsonValues == Scalars \cup Lists \cup Dicts

\* A namespace-like mapping with a leaf that only a default= hook can encode.
DictWithObject == JDict(<<<< <<"f">>, PyObject >>>>)

Unencodable == {PyCircular, PyTupleKey, PyDeep}

PyValues == JsonValues \cup Unencodable \cup {PyObject, DictWithObject}

RECURSIVE HasObject(_)
HasObject(x) ==
    CASE x.t = "object" -> TRUE
      [] x.t = "list" -> \E i \in 1..Len(x.v) : HasObject(x.v[i])
      [] x.t = "dict" -> \E i \in 1..Len(x.v) : HasObject(x.v[i][2])
      [] OTHER -> FALSE

\* Python truthiness of a payload ("if json_data:", "json_data or False").
PyTruthy(x) ==
    CASE x.t = "null" -> FALSE
      [] x.t = "bool" -> x.v
      [] x.t = "int" -> x.v # 0
      [] x.t \in {"str", "list", "dict"} -> x.v # <<>>
      [] OTHER -> TRUE

(***************************************************************************)
(* json.dumps: the text of a value, a sequence of characters.              *)
(***************************************************************************)
Digit(d) ==
    CASE d = 0 -> "0" [] d = 1 -> "1" [] d = 2 -> "2" [] d = 3 -> "3" [] d = 4 -> "4"
      [] d = 5 -> "5" [] d = 6 -> "6" [] d = 7 -> "7" [] d = 8 -> "8" [] d = 9 -> "9"

RECURSIVE NatText(_)
NatText(n) == IF n < 10 THEN <<Digit(n)>> ELSE NatText(n \div 10) \o <<Digit(n % 10)>>

IntText(n) == IF n < 0 THEN <<"-">> \o NatText(0 - n) ELSE NatText(n)

RECURSIVE Escaped(_)
Escaped(s) ==
    IF s = <<>> THEN <<>>
    ELSE (IF Head(s) \in {QUOTE, BSLASH} THEN <<BSLASH, Head(s)>> ELSE <<Head(s)>>)
             \o Escaped(Tail(s))

StrText(s) == <<QUOTE>> \o Escaped(s) \o <<QUOTE>>

RECURSIVE Spaces(_)
Spaces(n) == IF n = 0 THEN <<>> ELSE <<" ">> \o Spaces(n - 1)

\* str(object()): the text the default=str hook yields for a plain object.
ObjRepr == <<"<", "o", ">">>

\* mode "plain": indent=None, separators ", " and ": ";
\* mode "indent": indent=2, separators "," and ": ", one item per line;
\* mode "compact": separators "," and ":".
ItemSep(mode, level) ==
    CASE mode = "plain" -> <<",", " ">>
      [] mode = "indent" -> <<",", NL>> \o Spaces(2 * level)
      [] OTHER -> <<",">>

KeySep(mode) == IF mode = "compact" THEN <<":">> ELSE <<":", " ">>

Open(mode, level) == IF mode = "indent" THEN <<NL>> \o Spaces(2 * level) ELSE <<>>

RECURSIVE DumpsText(_, _, _)
RECURSIVE JoinItems(_, _, _, _)
JoinItems(xs, mode, level, isDict) ==
    LET one(x) == IF isDict
                  THEN StrText(x[1]) \o KeySep(mode) \o DumpsText(x[2], mode, level)
                  ELSE DumpsText(x, mode, level)
    IN  IF Len(xs) = 1 THEN one(xs[1])
        ELSE one(xs[1]) \o ItemSep(mode, level) \o JoinItems(Tail(xs), mode, level, isDict)

DumpsText(x, mode, level) ==
    CASE x.t = "null" -> <<"n", "u", "l", "l">>
      [] x.t = "bool" -> IF x.v THEN <<"t", "r", "u", "e">> ELSE <<"f", "a", "l", "s", "e">>
      [] x.t = "int" -> IntText(x.v)
      [] x.t = "str" -> StrText(x.v)
      [] x.t = "object" -> StrText(ObjRepr)
      [] x.t = "list" ->
            IF x.v = <<>> THEN <<"[", "]">>
            ELSE <<"[">> \o Open(mode, level + 1) \o JoinItems(x.v, mode, level + 1, FALSE)
                     \o Open(mode, level) \o <<"]">>
      [] x.t = "dict" ->
            IF x.v = <<>> THEN <<"{", "}">>
            ELSE <<"{">> \o Open(mode, level + 1) \o JoinItems(x.v, mode, level + 1, TRUE)
                     \o Open(mode, level) \o <<"}">>

\* json.dumps(x, ..., default=str if hasDefault): the text, or the exception.
json_dumps(x, mode, hasDefault) ==
    CASE x.t = "deep" -> [raised |-> "RecursionError", text |-> <<>>]
      [] x.t = "circular" -> [raised |-> "ValueError", text |-> <<>>]
      [] x.t = "tuplekey" -> [raised |-> "TypeError", text |-> <<>>]
      [] HasObject(x) /\ ~hasDefault -> [raised |-> "TypeError", text |-> <<>>]
      [] OTHER -> [raised |-> "none", text |-> DumpsText(x, mode, 0)]

(***************************************************************************)
(* json.loads: a recursive-descent reading of a text.  A parse step yields *)
(* [ok, val, rest]; the text decodes when a value is read and only white   *)
(* space follows it.                                                       *)
(***************************************************************************)
ParseFail == [ok |-> FALSE, val |-> JNull, rest |-> <<>>]

ParseOk(x, rest) == [ok |-> TRUE, val |-> x, rest |-> rest]

StartsWith(s, p) == Len(s) >= Len(p) /\ SubSeq(s, 1, Len(p)) = p

Drop(s, n) == SubSeq(s, n + 1, Len(s))

Digits == {"0", "1", "2", "3", "4", "5", "6", "7", "8", "9"}

DigitValue(c) == CHOOSE d \in 0..9 : Digit(d) = c

RECURSIVE SkipWs(_)
SkipWs(s) == IF s # <<>> /\ Head(s) \in {" ", NL} THEN SkipWs(Tail(s)) ELSE s

RECURSIVE ParseDigits(_, _)
ParseDigits(s, acc) ==
    IF s # <<>> /\ Head(s) \in Digits
    THEN ParseDigits(Tail(s), 10 * acc + DigitValue(Head(s)))
    ELSE [val |-> acc, rest |-> s]

\* -?(0|[1-9][0-9]*)
ParseNat(s) ==
    IF s = <<>> \/ Head(s) \notin Digits THEN ParseFail
    ELSE IF Head(s) = "0" THEN ParseOk(JInt(0), Tail(s))
    ELSE LET r == ParseDigits(s, 0) IN ParseOk(JInt(r.val), r.rest)

ParseNumber(s) ==
    IF Head(s) = "-"
    THEN LET r == ParseNat(Tail(s))
         IN  IF r.ok THEN ParseOk(JInt(0 - r.val.v), r.rest) ELSE ParseFail
    ELSE ParseNat(s)

\* The characters after an opening quote, up to the closing one.
RECURSIVE ParseString(_, _)
ParseString(s, acc) ==
    IF s = <<>> THEN ParseFail
    ELSE IF Head(s) = QUOTE THEN ParseOk(JStr(acc), Tail(s))
    ELSE IF Head(s) = BSLASH
         THEN IF Len(s) >= 2 /\ s[2] \in {QUOTE, BSLASH}
              THEN ParseString(Drop(s, 2), Append(acc, s[2]))
              ELSE ParseFail
    ELSE IF Head(s) = NL THEN ParseFail
    ELSE ParseString(Tail(s), Append(acc, Head(s)))

RECURSIVE ParseValue(_)
RECURSIVE ParseItems(_, _)
RECURSIVE ParseMembers(_, _)

\* After "[" or ",": one value, then "," or "]".
ParseItems(s, acc) ==
    LET r == ParseValue(s)
        t == SkipWs(r.rest)
    IN  IF ~r.ok \/ t = <<>> THEN ParseFail
        ELSE IF Head(t) = "," THEN ParseItems(Tail(t), Append(acc, r.val))
        ELSE IF Head(t) = "]" THEN ParseOk(JList(Append(acc, r.val)), Tail(t))
        ELSE ParseFail

\* After "{" or ",": a "key": value member, then "," or "}".
ParseMembers(s, acc) ==
    LET t == SkipWs(s)
        k == IF t # <<>> /\ Head(t) = QUOTE THEN ParseString(Tail(t), <<>>) ELSE ParseFail
        c == SkipWs(k.rest)
        r == IF k.ok /\ c # <<>> /\ Head(c) = ":" THEN ParseValue(Tail(c)) ELSE ParseFail
        e == SkipWs(r.rest)
        ps == Append(acc, <<k.val.v, r.val>>)
    IN  IF ~r.ok \/ e = <<>> THEN ParseFail
        ELSE IF Head(e) = "," THEN ParseMembers(Tail(e), ps)
        ELSE IF Head(e) = "}" THEN ParseOk(JDict(ps), Tail(e))
        ELSE ParseFail

ParseValue(s) ==
    LET t == SkipWs(s)
    IN  IF t = <<>> THEN ParseFail
        ELSE CASE StartsWith(t, <<"n", "u", "l", "l">>) -> ParseOk(JNull, Drop(t, 4))
               [] StartsWith(t, <<"t", "r", "u", "e">>) -> ParseOk(JBool(TRUE), Drop(t, 4))
               [] StartsWith(t, <<"f", "a", "l", "s", "e">>) -> ParseOk(JBool(FALSE), Drop(t, 5))
               [] Head(t) \in Digits \cup {"-"} -> ParseNumber(t)
               [] Head(t) = QUOTE -> ParseString(Tail(t), <<>>)
               [] Head(t) = "[" ->
                     LET u == SkipWs(Tail(t))
                     IN  IF u # <<>> /\ Head(u) = "]" THEN ParseOk(JList(<<>>), Tail(u))
                         ELSE ParseItems(Tail(t), <<>>)
               [] Head(t) = "{" ->
                     LET u == SkipWs(Tail(t))
                     IN  IF u # <<>> /\ Head(u) = "}" THEN ParseOk(JDict(<<>>), Tail(u))
                         ELSE ParseMembers(Tail(t), <<>>)
               [] OTHER -> ParseFail

\* json.loads(text): [raised, val]; a text that is no JSON raises ValueError.
json_loads(text) ==
    LET r == ParseValue(text)
    IN  IF r.ok /\ SkipWs(r.rest) = <<>>
        THEN [raised |-> "none", val |-> r.val]
        ELSE [raised |-> "ValueError", val |-> JNull]

(***************************************************************************)
(* serialize_utils.safe_serialize(data, verbose): the value it returns is  *)
(* a str (here: the text), never a mapping.                                *)
(***************************************************************************)
UNSERIALIZABLE == <<"[", "U", "n", "s", "e", "r", "i", "a", "l", "i", "z", "a", "b", "l", "e",
                    " ", "d", "a", "t", "a", "]">>

\* str(data) of the values json.dumps rejects with TypeError or ValueError.
PyStr(x) ==
    CASE x.t = "circular" -> <<"[", "[", ".", ".", ".", "]", "]">>
      [] x.t = "tuplekey" -> <<"{", "(", "1", ",", ")", ":", " ", "1", "}">>
      [] x.t = "object" -> ObjRepr
      [] OTHER -> DumpsText(x, "plain", 0)

PyStrResult(text) == [raised |-> "none", pytype |-> "str", text |-> text]

safe_serialize(data, verbose) ==
    IF data.t = "str" THEN PyStrResult(data.v)
    ELSE LET r == json_dumps(data, IF verbose THEN "indent" ELSE "plain", TRUE)
         IN  IF r.raised = "none" THEN PyStrResult(r.text)
             ELSE IF r.raised \in {"TypeError", "ValueError"}
                  THEN PyStrResult(IF verbose THEN PyStr(data) ELSE UNSERIALIZABLE)
             ELSE [raised |-> r.raised, pytype |-> "none", text |-> <<>>]

(***************************************************************************)
(* serialize_utils.sanitize_token_string(line).  A line is a sequence of   *)
(* characters: a name character, a space, the comment mark, the string     *)
(* quote and the two parentheses; its string literals are closed.          *)
(* tokenize.generate_tokens yields the tokens one by one and raises        *)
(* TokenError at the end of a line whose parentheses do not balance.       *)
(***************************************************************************)
LineChars == {"x", " ", "#", QUOTE, "(", ")"}

RECURSIVE Count(_, _)
Count(s, c) == IF s = <<>> THEN 0 ELSE (IF Head(s) = c THEN 1 ELSE 0) + Count(Tail(s), c)

Lines == {l \in SeqsUpTo(LineChars, MaxLineLen) : Count(l, QUOTE) % 2 = 0}

\* A variant of strip that drops one blank at most from each end.
StripOnce(s) ==
    LET a == IF s # <<>> /\ Head(s) = " " THEN Tail(s) ELSE s
    IN  IF a # <<>> /\ a[Len(a)] = " " THEN SubSeq(a, 1, Len(a) - 1) ELSE a

RECURSIVE LStrip(_)
LStrip(s) == IF s # <<>> /\ Head(s) = " " THEN LStrip(Tail(s)) ELSE s

RECURSIVE RStrip(_)
RStrip(s) == IF s # <<>> /\ s[Len(s)] = " " THEN RStrip(SubSeq(s, 1, Len(s) - 1)) ELSE s

\* str.strip()
StripChars(s) == RStrip(LStrip(s))

Token(type, string, start) == [type |-> type, string |-> string, start |-> start]

\* The length of the run of c at the head of s.
RECURSIVE RunLen(_, _)
RunLen(s, c) == IF s # <<>> /\ Head(s) = c THEN 1 + RunLen(Tail(s), c) ELSE 0

\* The position of the first c in s (s holds one).
RECURSIVE IndexOf(_, _)
IndexOf(s, c) == IF Head(s) = c THEN 1 ELSE 1 + IndexOf(Tail(s), c)

\* The tokens of s, which begins at column pos, after the tokens acc;
\* depth is the nesting of parentheses so far, indented whether the line
\* began with an INDENT.
RECURSIVE Scan(_, _, _, _, _)
Scan(s, pos, depth, indented, acc) ==
    IF s = <<>>
    THEN IF depth # 0 THEN [toks |-> acc, err |-> TRUE]
         ELSE [toks |-> acc \o <<Token("NEWLINE", <<>>, pos)>>
                          \o (IF indented THEN <<Token("DEDENT", <<>>, pos)>> ELSE <<>>)
                          \o <<Token("ENDMARKER", <<>>, pos)>>,
               err |-> FALSE]
    ELSE CASE Head(s) = " " -> Scan(Tail(s), pos + 1, depth, indented, acc)
           [] Head(s) = "#" ->
                 Scan(<<>>, pos + Len(s), depth, indented, Append(acc, Token("COMMENT", s, pos)))
           [] Head(s) = "x" ->
                 LET n == RunLen(s, "x")
                 IN  Scan(Drop(s, n), pos + n, depth, indented,
                          Append(acc, Token("NAME", SubSeq(s, 1, n), pos)))
           [] Head(s) = QUOTE ->
                 LET n == 1 + IndexOf(Tail(s), QUOTE)
                 IN  Scan(Drop(s, n), pos + n, depth, indented,
                          Append(acc, Token("STRING", SubSeq(s, 1, n), pos)))
           [] Head(s) = "(" ->
                 Scan(Tail(s), pos + 1, depth + 1, indented, Append(acc, Token("OP", <<"(">>, pos)))
           [] OTHER ->
                 Scan(Tail(s), pos + 1, depth - 1, indented, Append(acc, Token("OP", <<")">>, pos)))

\* tokenize.generate_tokens(StringIO(line).readline): the tokens it yields and
\* whether it raises after them.
generate_tokens(line) ==
    LET lead == RunLen(line, " ")
        rest == Drop(line, lead)
    IN  IF rest = <<>> THEN [toks |-> <<Token("ENDMARKER", <<>>, 1)>>, err |-> FALSE]
        ELSE IF Head(rest) = "#"
             THEN [toks |-> <<Token("COMMENT", rest, lead + 1), Token("NL", <<>>, Len(line) + 1),
                              Token("ENDMARKER", <<>>, 1)>>,
                   err |-> FALSE]
        ELSE IF lead > 0
             THEN Scan(rest, lead + 1, 0, TRUE, <<Token("INDENT", SubSeq(line, 1, lead), 1)>>)
        ELSE Scan(rest, 1, 0, FALSE, <<>>)

PyListResult(text) == [raised |-> "none", pytype |-> "list", text |-> text]

\* The for loop over the tokens.  new_line starts as a list and is rebound to
\* the joined, stripped str at the end of each pass: [isList, text].
RECURSIVE token_loop(_, _, _, _)
token_loop(toks, err, new_line, last_token_was_name) ==
    IF toks = <<>>
    THEN IF err THEN [raised |-> "TokenError", pytype |-> "none", text |-> <<>>]
         ELSE IF new_line.isList THEN PyListResult(new_line.text)
         ELSE PyStrResult(new_line.text)
    ELSE LET token == Head(toks)
         IN  IF token.type = "COMMENT"
             THEN IF new_line.isList THEN PyListResult(new_line.text)
                  ELSE PyStrResult(new_line.text)
             ELSE IF ~new_line.isList
                  THEN [raised |-> "AttributeError", pytype |-> "none", text |-> <<>>]
             ELSE LET spaced == IF last_token_was_name /\ token.type \in {"NAME", "NUMBER"}
                                THEN new_line.text \o <<" ">> ELSE new_line.text
                  IN  token_loop(Tail(toks), err,
                                 [isList |-> FALSE, text |-> StripChars(spaced \o token.string)],
                                 token.type \in {"NAME", "NUMBER"})

\* A variant whose handler is "except tokenize.TokenError".
sanitize_token_string_narrow(line) ==
    LET t == generate_tokens(line)
        r == token_loop(t.toks, t.err, [isList |-> TRUE, text |-> <<>>], FALSE)
    IN  IF r.raised = "TokenError" THEN PyStrResult(StripChars(line)) ELSE r

\* "except Exception: return line.strip()"
sanitize_token_string(line) ==
    LET t == generate_tokens(line)
        r == token_loop(t.toks, t.err, [isList |-> TRUE, text |-> <<>>], FALSE)
    IN  IF r.raised # "none" THEN PyStrResult(StripChars(line)) ELSE r

(***************************************************************************)
(* file_utils.is_project_file(filename).  A filename is None, a str (a     *)
(* relative or absolute path; "" is the relative path without components), *)
(* a str with an embedded NUL, or a value that is no path at all.  The     *)
(* process environment gives the working directory a relative path is      *)
(* resolved against, and whether that directory still exists.              *)
(***************************************************************************)
Components == {"home", "proj", "x", ".."}

ProjectRoot == <<"home", "proj">>

FileNone == [kind |-> "None", abs |-> FALSE, parts |-> <<>>]
FileStr(abs, parts) == [kind |-> "str", abs |-> abs, parts |-> parts]
FileNul == [kind |-> "nul", abs |-> FALSE, parts |-> <<>>]
FileInt == [kind |-> "int", abs |-> FALSE, parts |-> <<>>]

Filenames ==
    {FileNone, FileNul, FileInt}
        \cup {FileStr(a, ps) : a \in BOOLEAN, ps \in SeqsUpTo(Components, MaxParts)}

Envs == [cwd : {ProjectRoot, <<"home">>}, cwdExists : BOOLEAN]

\* "if not filename": None and "" are falsy.
FileTruthy(f) == f.kind \in {"nul", "int"} \/ (f.kind = "str" /\ (f.abs \/ f.parts # <<>>))

RECURSIVE Normalize(_, _)
Normalize(acc, rest) ==
    IF rest = <<>> THEN acc
    ELSE IF Head(rest) = ".."
         THEN Normalize(IF acc = <<>> THEN <<>> ELSE SubSeq(acc, 1, Len(acc) - 1), Tail(rest))
    ELSE Normalize(Append(acc, Head(rest)), Tail(rest))

\* Path(filename).resolve(): the absolute path without "..", or the exception.
resolve(f, env) ==
    CASE f.kind = "int" -> [raised |-> "TypeError", path |-> <<>>]
      [] f.kind = "nul" -> [raised |-> "ValueError", path |-> <<>>]
      [] f.kind = "str" /\ f.abs -> [raised |-> "none", path |-> Normalize(<<>>, f.parts)]
      [] f.kind = "str" /\ ~f.abs /\ env.cwdExists ->
            [raised |-> "none", path |-> Normalize(<<>>, env.cwd \o f.parts)]
      [] OTHER -> [raised |-> "FileNotFoundError", path |-> <<>>]

\* A variant that looks at the containing directory only.
ParentOnly(path) == IF path = <<>> THEN {} ELSE {SubSeq(path, 1, Len(path) - 1)}

\* PurePath.parents: every proper ancestor, up to the filesystem root <<>>.
Parents(path) == {SubSeq(path, 1, k) : k \in 0..(Len(path) - 1)}

is_project_file(filename, env) ==
    IF ~FileTruthy(filename) THEN [raised |-> "none", val |-> FALSE]
    ELSE LET r == resolve(filename, env)
         IN  IF r.raised = "none"
             THEN [raised |-> "none", val |-> ProjectRoot \in Parents(r.path)]
             ELSE IF r.raised \in {"TypeError", "ValueError"}
                  THEN [raised |-> "none", val |-> FALSE]
             ELSE [raised |-> r.raised, val |-> FALSE]

(***************************************************************************)
(* file_utils.manage_logfiles(configs).  The logs base directory holds     *)
(* entries in iterdir order; an entry is a directory (a log group) with    *)
(* its *.log files in glob order, or a plain file.  A file has its         *)
(* modification time and whether unlink fails on it.                       *)
(***************************************************************************)
max_logfiles == 5

Mtimes == {10, 20}

LogFiles == [mtime : Mtimes, locked : BOOLEAN]

LogEntries ==
    {[isDir |-> FALSE, files |-> <<>>]}
        \cup {[isDir |-> TRUE, files |-> fs] : fs \in SeqsUpTo(LogFiles, MaxFiles)}

LogTrees ==
    {t \in LogEntries \X LogEntries : Len(t[1].files) + Len(t[2].files) <= MaxFiles}

LogConfigs ==
    {ConfigNone, ConfigDict([logging |-> [enable |-> TRUE]])}
        \cup {ConfigDict([logging |-> [enable |-> TRUE, max_logfiles |-> m]]) : m \in {1, 2}}

\* A variant that orders the files newest first.
RECURSIVE sorted_newest_first(_, _)
sorted_newest_first(files, n) ==
    IF n = 0 THEN <<>>
    ELSE LET rest == sorted_newest_first(files, n - 1)
             k == Cardinality({j \in 1..Len(rest) : files[rest[j]].mtime >= files[n].mtime})
         IN  SubSeq(rest, 1, k) \o <<n>> \o SubSeq(rest, k + 1, Len(rest))

\* sorted(files, key=st_mtime) of the first n files: their indices, the oldest
\* first, files of equal time in glob order.
RECURSIVE sorted_by_mtime(_, _)
sorted_by_mtime(files, n) ==
    IF n = 0 THEN <<>>
    ELSE LET rest == sorted_by_mtime(files, n - 1)
             k == Cardinality({j \in 1..Len(rest) : files[rest[j]].mtime <= files[n].mtime})
         IN  SubSeq(rest, 1, k) \o <<n>> \o SubSeq(rest, k + 1, Len(rest))

Managed(raised, attempted, deleted, warnings) ==
    [raised |-> raised, returned |-> [t |-> "None", items |-> <<>>], attempted |-> attempted, deleted |-> deleted,
     warnings |-> warnings]

\* A variant that gives up on the first unlink that fails.
RECURSIVE remove_logs_abort(_, _, _, _)
remove_logs_abort(e, files, logs_to_remove, acc) ==
    IF logs_to_remove = <<>> THEN acc
    ELSE LET f == <<e, Head(logs_to_remove)>>
         IN  IF files[f[2]].locked
             THEN Managed("PermissionError", Append(acc.attempted, f), acc.deleted, acc.warnings)
             ELSE remove_logs_abort(e, files, Tail(logs_to_remove),
                      Managed("none", Append(acc.attempted, f), Append(acc.deleted, f),
                              acc.warnings))

\* "for log_file in logs_to_remove: try: log_file.unlink() except Exception".
RECURSIVE remove_logs(_, _, _, _)
remove_logs(e, files, logs_to_remove, acc) ==
    IF logs_to_remove = <<>> THEN acc
    ELSE LET f == <<e, Head(logs_to_remove)>>
         IN  remove_logs(e, files, Tail(logs_to_remove),
                 IF files[f[2]].locked
                 THEN Managed("none", Append(acc.attempted, f), acc.deleted,
                              Append(acc.warnings, f))
                 ELSE Managed("none", Append(acc.attempted, f), Append(acc.deleted, f),
                              acc.warnings))

\* The loop over the entries of the base directory, from entry e on.
RECURSIVE manage_entries(_, _, _, _)
manage_entries(configs, tree, e, acc) ==
    IF e > Len(tree) \/ acc.raised # "none" THEN acc
    ELSE IF ~tree[e].isDir THEN manage_entries(configs, tree, e + 1, acc)
    ELSE IF configs.kind = "None"
         THEN Managed("TypeError", acc.attempted, acc.deleted, acc.warnings)
    ELSE LET files == tree[e].files
             log_files == sorted_by_mtime(files, Len(files))
             num_to_remove ==
                 Len(log_files) - Get(configs.d["logging"], "max_logfiles", max_logfiles)
         IN  IF num_to_remove > 0
             THEN manage_entries(configs, tree, e + 1,
                      remove_logs(e, files, SubSeq(log_files, 1, num_to_remove), acc))
             ELSE manage_entries(configs, tree, e + 1, acc)

manage_logfiles(configs, tree) ==
    manage_entries(configs, tree, 1, Managed("none", <<>>, <<>>, <<>>))

(***************************************************************************)
(* The same function over the directories as they are on disk.  A log      *)
(* group holds children in listing order: log files, files of another      *)
(* suffix, and files of a directory below it (nested).  log_dir.glob       *)
(* picks the children the rotation works on; what manage_logfiles deletes  *)
(* of them is told by child.                                               *)
(***************************************************************************)
Children ==
    [suffix : {".log"}, nested : {FALSE}, mtime : Mtimes, locked : BOOLEAN]
        \cup {[suffix |-> ".txt", nested |-> FALSE, mtime |-> 10, locked |-> FALSE],
              [suffix |-> ".log", nested |-> TRUE, mtime |-> 10, locked |-> FALSE]}

Groups(n) ==
    IF n < 0 THEN {[isDir |-> FALSE, children |-> <<>>]}
    ELSE {[isDir |-> TRUE, children |-> cs] : cs \in [1..n -> Children]}

\* Two entries of the base directory: plain files (n = -1) or log groups whose
\* children number MaxChildren at most together.
Directories ==
    UNION {Groups(n[1]) \X Groups(n[2]) :
              n \in {m \in (-1..MaxChildren) \X (-1..MaxChildren) :
                         (IF m[1] < 0 THEN 0 ELSE m[1]) + (IF m[2] < 0 THEN 0 ELSE m[2])
                             <= MaxChildren}}

DirectoryConfigs == LogConfigs \ {ConfigNone}

\* A variant that matches the log files of deeper directories as well.
rglob(children) ==
    SelectSeq([k \in DOMAIN children |-> k], LAMBDA k : children[k].suffix = ".log")

\* log_dir.glob("*.log"): the direct children with the suffix, by position.
glob(children) ==
    SelectSeq([k \in DOMAIN children |-> k],
              LAMBDA k : children[k].suffix = ".log" /\ ~children[k].nested)

\* The log groups as the loop sees them: each with the files glob yields.
Globbed(dirs) ==
    [e \in DOMAIN dirs |->
        [isDir |-> dirs[e].isDir,
         files |-> LET g == glob(dirs[e].children)
                   IN  [k \in DOMAIN g |-> [mtime |-> dirs[e].children[g[k]].mtime,
                                            locked |-> dirs[e].children[g[k]].locked]]]]

\* The children behind the <<entry, file>> pairs of an outcome.
ChildrenOf(dirs, pairs) ==
    [k \in DOMAIN pairs |-> <<pairs[k][1], glob(dirs[pairs[k][1]].children)[pairs[k][2]]>>]

manage_directories(configs, dirs) ==
    LET r == manage_logfiles(configs, Globbed(dirs))
    IN  [raised |-> r.raised, returned |-> r.returned,
         deleted |-> ChildrenOf(dirs, r.deleted), warnings |-> ChildrenOf(dirs, r.warnings)]

(***************************************************************************)
(* log_utils: log_message, output_logfile, output_console.  An outcome is  *)
(* [raised, file, console]: the records handed to logger.info and the      *)
(* lines handed to print, in order, and the exception that ended the call. *)
(***************************************************************************)
Messages == {"", "   ", "hello"}

\* str.strip() of the messages above and of the trace records (never blank).
Strip(m) == IF m \in {"", "   "} THEN "" ELSE m

Categories == {"CALL", "RETURN", "INFO", "ERROR", "OTHER"}

IsAnsi(color) == color \in {"ESC[0m", "ESC[92m"}

\* "json_data or False"
OrFalse(x) == IF PyTruthy(x) THEN x ELSE JBool(FALSE)

Sinks(raised, file, console) == [raised |-> raised, file |-> file, console |-> console]

\* repr(x) of a JSON-like value; the strings hold no apostrophe and no
\* backslash, so repr puts them between apostrophes as they are.
RECURSIVE PyRepr(_)
RECURSIVE ReprItems(_, _)
ReprItems(xs, isDict) ==
    LET one(x) == IF isDict THEN PyRepr(JStr(x[1])) \o <<":", " ">> \o PyRepr(x[2])
                  ELSE PyRepr(x)
    IN  IF Len(xs) = 1 THEN one(xs[1])
        ELSE one(xs[1]) \o <<",", " ">> \o ReprItems(Tail(xs), isDict)

PyRepr(x) ==
    CASE x.t = "null" -> <<"N", "o", "n", "e">>
      [] x.t = "bool" -> IF x.v THEN <<"T", "r", "u", "e">> ELSE <<"F", "a", "l", "s", "e">>
      [] x.t = "int" -> IntText(x.v)
      [] x.t = "str" -> <<"'">> \o x.v \o <<"'">>
      [] x.t = "list" ->
            IF x.v = <<>> THEN <<"[", "]">> ELSE <<"[">> \o ReprItems(x.v, FALSE) \o <<"]">>
      [] x.t = "dict" ->
            IF x.v = <<>> THEN <<"{", "}">> ELSE <<"{">> \o ReprItems(x.v, TRUE) \o <<"}">>
      [] OTHER -> PyStr(x)

\* f"{x}": a str as it is, any other value by its repr.
Format(x) == IF x.t = "str" THEN x.v ELSE PyRepr(x)

\* The log_levels table of log_message and its default.
log_levels(category) ==
    CASE category = "CALL" -> "INFO"
      [] category = "RETURN" -> "DEBUG"
      [] category = "IMPORT" -> "WARNING"
      [] category \in {"DEBUG", "INFO", "WARNING", "ERROR", "CRITICAL"} -> category
      [] OTHER -> "INFO"

\* The record is logfile_message: the message and what is appended to it.
output_logfile(message, json_data) ==
    IF json_data.t = "deep" THEN Sinks("RecursionError", <<>>, <<>>)
    ELSE Sinks("none",
          << [level |-> "INFO", message |-> message, payload |-> json_data,
              hasPayload |-> PyTruthy(json_data),
              appended |-> IF PyTruthy(json_data) THEN <<NL>> \o Format(json_data)
                           ELSE <<>>] >>,
          <<>>)

output_console(message, category, json_data, configs) ==
    IF "colors" \notin DOMAIN configs.d \/ "RESET" \notin DOMAIN configs.d["colors"]
    THEN Sinks("KeyError", <<>>, <<>>)
    ELSE LET colors == configs.d["colors"]
             picked == Get(colors, category, colors["RESET"])
             color == IF IsAnsi(picked) THEN picked ELSE colors["RESET"]
             line == [kind |-> "message", color |-> color, message |-> message,
                      text |-> <<>>]
         IN  IF ~PyTruthy(json_data) THEN Sinks("none", <<>>, <<line>>)
             ELSE IF json_data.t = "str"
                  THEN Sinks("none", <<>>,
                             <<line, [kind |-> "payload", color |-> "", message |-> "",
                                      text |-> json_data.v]>>)
             ELSE LET r == json_dumps(json_data, "indent", FALSE)
                  IN  IF r.raised # "none" THEN Sinks(r.raised, <<>>, <<line>>)
                      ELSE Sinks("none", <<>>,
                                 <<line, [kind |-> "payload", color |-> "", message |-> "",
                                          text |-> r.text]>>)

\* Run b after a, unless a raised.
Then(a, b) ==
    IF a.raised # "none" THEN a
    ELSE Sinks(b.raised, a.file \o b.file, a.console \o b.console)

Nothing == Sinks("none", <<>>, <<>>)

\* A variant that writes to both sinks whatever the enable flags say.
log_message_unflagged(message, category, json_data, serialize_json, configs) ==
    IF ~Truthy(configs) /\ "CONFIGS" \notin LogUtilsGlobals THEN Sinks("NameError", <<>>, <<>>)
    ELSE LET d == configs.d IN
    IF "logging" \notin DOMAIN d
           \/ {"package_name", "module_name"} \ DOMAIN d["logging"] # {}
    THEN Sinks("KeyError", <<>>, <<>>)
    ELSE LET dumped == IF PyTruthy(json_data) /\ serialize_json
                       THEN json_dumps(json_data, "compact", FALSE)
                       ELSE [raised |-> "none", text |-> <<>>]
             data == IF PyTruthy(json_data) /\ serialize_json
                     THEN JStr(dumped.text) ELSE json_data
             fileStep ==
                 IF "tracing" \notin DOMAIN d THEN Sinks("KeyError", <<>>, <<>>)
                 ELSE IF Strip(message) # ""
                      THEN output_logfile(message, OrFalse(data))
                 ELSE Nothing
             consoleStep ==
                 IF "tracing" \notin DOMAIN d THEN Sinks("KeyError", <<>>, <<>>)
                 ELSE IF Strip(message) # ""
                      THEN output_console(message, category, OrFalse(data), configs)
                 ELSE Nothing
         IN  IF dumped.raised # "none" THEN Sinks(dumped.raised, <<>>, <<>>)
             ELSE Then(fileStep, consoleStep)

log_message(message, category, json_data, serialize_json, configs) ==
    IF ~Truthy(configs) /\ "CONFIGS" \notin LogUtilsGlobals THEN Sinks("NameError", <<>>, <<>>)
    ELSE LET d == configs.d IN
    IF "logging" \notin DOMAIN d
           \/ {"package_name", "module_name"} \ DOMAIN d["logging"] # {}
    THEN Sinks("KeyError", <<>>, <<>>)
    ELSE LET dumped == IF PyTruthy(json_data) /\ serialize_json
                       THEN json_dumps(json_data, "compact", FALSE)
                       ELSE [raised |-> "none", text |-> <<>>]
             data == IF PyTruthy(json_data) /\ serialize_json
                     THEN JStr(dumped.text) ELSE json_data
             logging_enable == Get(d["logging"], "enable", FALSE)
             fileStep ==
                 IF ~logging_enable THEN Nothing
                 ELSE IF "tracing" \notin DOMAIN d THEN Sinks("KeyError", <<>>, <<>>)
                 ELSE IF ~Get(d["tracing"], "enable", FALSE) /\ Strip(message) # ""
                      THEN output_logfile(message, OrFalse(data))
                 ELSE Nothing
             consoleStep ==
                 IF "tracing" \notin DOMAIN d THEN Sinks("KeyError", <<>>, <<>>)
                 ELSE IF Get(d["tracing"], "enable", FALSE) /\ Strip(message) # ""
                      THEN output_console(message, category, OrFalse(data), configs)
                 ELSE Nothing
         IN  IF dumped.raised # "none" THEN Sinks(dumped.raised, <<>>, <<>>)
             ELSE Then(fileStep, consoleStep)

(***************************************************************************)
(* tracing.setup_logging, as far as the logger's sinks go: its first call  *)
(* attaches the file and console handlers to the logger, a later call      *)
(* finds handlers and clears them; each call rebinds builtins.print to     *)
(* logger.info.  What reaches the log file of a log_message call: the      *)
(* records output_logfile hands to logger.info and, with print rebound,    *)
(* the lines output_console prints -- when the logger has its handlers.    *)
(***************************************************************************)
SetupCalls == {0, 1, 2}

setup_logging(calls) == [redirected |-> calls >= 1, handlers |-> calls = 1]

logfile_written(sinks, calls) ==
    LET env == setup_logging(calls)
    IN  (IF env.handlers
         THEN [k \in 1..Len(sinks.file) |-> [via |-> "logger.info", message |-> sinks.file[k].message]]
         ELSE <<>>)
        \o (IF env.handlers /\ env.redirected
            THEN [k \in 1..Len(sinks.console) |->
                     [via |-> "print", message |-> sinks.console[k].message]]
            ELSE <<>>)

(***************************************************************************)
(* trace_utils.trace_all(configs).trace_events(frame, event, arg).         *)
(* A frame gives the code name, the __file__ global of its module, the     *)
(* kind of its caller frame (f_back) and, for a call, the mapping of the   *)
(* declared parameters to their values.  The arg of a return event is the  *)
(* returned value: whether it has a __dict__, and vars(arg) if it has.     *)
(***************************************************************************)
excluded_functions == {"emit", "log_utils.log_message"}

CoNames == {"emit", "log_message", "work"}

FrameFiles ==
    {FileNone, FileStr(TRUE, <<"home", "proj", "x">>),
     FileStr(TRUE, <<"home", "x">>), FileStr(FALSE, <<"x">>)}

CallArgs == {JDict(<<>>), JDict(<<<< <<"k">>, JInt(7) >>>>), DictWithObject, PyCircular, PyDeep}

ReturnArgs ==
    { [hasDict |-> FALSE, value |-> JNull, vars |-> JNull],
      [hasDict |-> FALSE, value |-> JInt(7), vars |-> JNull],
      [hasDict |-> FALSE, value |-> PyDeep, vars |-> JNull],
      [hasDict |-> TRUE, value |-> PyObject, vars |-> JDict(<<<< <<"k">>, JInt(7) >>>>)],
      [hasDict |-> TRUE, value |-> PyObject, vars |-> DictWithObject] }

NoArg == [hasDict |-> FALSE, value |-> JNull, vars |-> JNull]

Frames == [co_name : CoNames, file : FrameFiles, caller : {"none", "module", "function"},
           args : CallArgs]

Traced(raised, ret, sinks) ==
    [raised |-> raised, ret |-> ret, file |-> sinks.file, console |-> sinks.console]

\* The "call" branch inside its try block.
call_events(configs, frame) ==
    IF frame.caller = "none" THEN Nothing
    ELSE LET bare == log_message("[CALL] caller ( line )", "CALL", JNull, FALSE, configs)
         IN  IF frame.caller = "module"
             THEN Then(bare, log_message("[CALL] module[n] ( line ) -> callee (fn)[n]",
                                         "CALL", JNull, FALSE, configs))
             ELSE LET r == json_dumps(frame.args, "plain", TRUE)
                      arg_list == IF r.raised = "none" THEN json_loads(r.text).val
                                  ELSE JStr(UNSERIALIZABLE)
                  IN  IF r.raised \notin {"none", "TypeError", "ValueError"}
                      THEN Then(bare, Sinks(r.raised, <<>>, <<>>))
                      ELSE Then(bare, log_message("[CALL] caller (fn)[n] -> callee (fn)[n]",
                                                  "CALL", arg_list, FALSE, configs))

\* The "return" branch inside its try block.
return_events(configs, frame, arg) ==
    LET r == safe_serialize(arg.value, FALSE)
        return_value == IF arg.hasDict THEN arg.vars ELSE JStr(r.text)
    IN  IF r.raised # "none" THEN Sinks(r.raised, <<>>, <<>>)
        ELSE log_message("[RETURN] file[n] ( line ) -> RETURN VALUE (Type):",
                         "RETURN", return_value, FALSE, configs)

\* "except Exception as e: logger.error(...)": logger is read as a module global.
handled(sinks) ==
    IF sinks.raised = "none" THEN Traced("none", "trace_events", sinks)
    ELSE IF "logger" \in TraceUtilsGlobals
         THEN Traced("none", "trace_events", Sinks("none", sinks.file, sinks.console))
    ELSE Traced("NameError", "raised", Sinks("NameError", sinks.file, sinks.console))

\* A variant that keeps tracing the scope of a file outside the project.
trace_events_everywhere(configs, frame, event, arg, env) ==
    IF frame.co_name \in excluded_functions THEN Traced("none", "None", Nothing)
    ELSE IF ~FileTruthy(frame.file) THEN Traced("none", "None", Nothing)
    ELSE LET p == is_project_file(frame.file, env) IN
    IF p.raised \in {"TypeError", "ValueError"} THEN Traced("none", "None", Nothing)
    ELSE IF p.raised # "none" THEN Traced(p.raised, "raised", Nothing)
    ELSE IF ~p.val THEN Traced("none", "trace_events", Nothing)
    ELSE IF event = "call" THEN handled(call_events(configs, frame))
    ELSE IF event = "return" THEN handled(return_events(configs, frame, arg))
    ELSE Traced("none", "trace_events", Nothing)

trace_events(configs, frame, event, arg, env) ==
    IF frame.co_name \in excluded_functions THEN Traced("none", "None", Nothing)
    ELSE IF ~FileTruthy(frame.file) THEN Traced("none", "None", Nothing)
    ELSE LET p == is_project_file(frame.file, env) IN
    IF p.raised \in {"TypeError", "ValueError"} THEN Traced("none", "None", Nothing)
    ELSE IF p.raised # "none" THEN Traced(p.raised, "raised", Nothing)
    ELSE IF ~p.val THEN Traced("none", "None", Nothing)
    ELSE IF event = "call" THEN handled(call_events(configs, frame))
    ELSE IF event = "return" THEN handled(return_events(configs, frame, arg))
    ELSE Traced("none", "trace_events", Nothing)

(***************************************************************************)
(* trace_utils.start_tracing(configs), given what sys.gettrace() returns.  *)
(***************************************************************************)
NoHook == [installed |-> FALSE, configs |-> ConfigNone, serial |-> 0]

Hook(configs, serial) == [installed |-> TRUE, configs |-> configs, serial |-> serial]

Started(raised, settrace, warned) ==
    [raised |-> raised, settrace |-> settrace, warned |-> warned]

\* A variant that installs without asking sys.gettrace().
start_tracing_unguarded(configs, gettrace) ==
    IF ~Truthy(configs) /\ "CONFIGS" \notin TraceUtilsGlobals
    THEN Started("NameError", FALSE, FALSE)
    ELSE IF ~Truthy(configs) \/ "logging" \notin DOMAIN configs.d
         THEN Started("none", FALSE, TRUE)
    ELSE IF "tracing" \notin DOMAIN configs.d THEN Started("KeyError", FALSE, FALSE)
    ELSE IF Get(configs.d["tracing"], "enable", TRUE) THEN Started("none", TRUE, FALSE)
    ELSE Started("none", FALSE, FALSE)

start_tracing(configs, gettrace) ==
    IF ~Truthy(configs) /\ "CONFIGS" \notin TraceUtilsGlobals
    THEN Started("NameError", FALSE, FALSE)
    ELSE IF ~Truthy(configs) \/ "logging" \notin DOMAIN configs.d
         THEN Started("none", FALSE, TRUE)
    ELSE IF "tracing" \notin DOMAIN configs.d THEN Started("KeyError", FALSE, FALSE)
    ELSE IF Get(configs.d["tracing"], "enable", TRUE) /\ ~gettrace.installed
         THEN Started("none", TRUE, FALSE)
    ELSE Started("none", FALSE, FALSE)

(***************************************************************************)
(* tracing.setup_logging(configs) as a step of the process.  The process   *)
(* holds the module globals LOGGING, CONFIGS and logger of tracing.py, the *)
(* handlers of every logger of the logging registry and whether            *)
(* builtins.print has been rebound.  The rebound print reads the global    *)
(* logger when it is called, so it follows the latest logger.  Every       *)
(* logging section below names its log file.                               *)
(***************************************************************************)
LoggingSection(module_name) ==
    [enable |-> TRUE, package_name |-> "pkg", module_name |-> module_name,
     log_filename |-> "logs/run.log"]

SetupConfigs ==
    {ConfigNone, ConfigDict([tracing |-> [enable |-> TRUE]]),
     ConfigDict([logging |-> LoggingSection("mod")])}
        \cup {ConfigDict([logging |-> LoggingSection(m), tracing |-> t]) :
                 m \in {"mod", "other"}, t \in TracingSections}

LoggerNames == {"pkg.mod", "pkg.other"}

getLogger(section) ==
    IF section["module_name"] = "mod" THEN "pkg.mod" ELSE "pkg.other"

FreshProcess ==
    [LOGGING |-> "None", CONFIGS |-> ConfigNone, logger |-> "None",
     handlers |-> [n \in LoggerNames |-> <<>>], redirected |-> FALSE]

\* print(...): the handlers the line reaches, or the builtin print.  A record
\* of level INFO on a logger without handlers is dropped.
print_call(proc) ==
    IF ~proc.redirected THEN {"builtins.print"}
    ELSE IF proc.logger = "None" THEN {}
    ELSE {proc.handlers[proc.logger][k] : k \in DOMAIN proc.handlers[proc.logger]}

BothHandlers == <<"ANSIFileHandler", "PrintCapture">>

\* "if logger.hasHandlers(): logger.handlers.clear() else: addHandler(file),
\* addHandler(console)" on the handlers of the logger (propagate is False).
attach_handlers(handlers) == IF handlers # <<>> THEN <<>> ELSE BothHandlers

\* ran: start_tracing was called and went past its configs check.
SetUp(raised, returned, proc, ran, settrace, printed) ==
    [raised |-> raised, returned |-> returned, proc |-> proc, ran |-> ran,
     settrace |-> settrace, printed |-> printed]

ReturnedFalse == [kind |-> "False", d |-> EmptyDict]

setup_logging_call(proc, configs, gettrace) ==
    LET p0 == [proc EXCEPT !.LOGGING = "True"]
        p1 == [p0 EXCEPT !.CONFIGS = configs]
        shown == <<print_call(p0)>>
    IN  \* pkgconfig.setup_configs() takes no keyword arguments
        IF ~Truthy(configs) THEN SetUp("TypeError", ConfigNone, p0, FALSE, FALSE, <<>>)
        ELSE IF "logging" \notin DOMAIN configs.d
             THEN SetUp("KeyError", ConfigNone, p1, FALSE, FALSE, shown)
        ELSE LET name == getLogger(configs.d["logging"])
                 p2 == [p1 EXCEPT !.logger = name,
                                  !.handlers[name] = attach_handlers(p1.handlers[name]),
                                  !.redirected = TRUE]
             IN  IF "tracing" \notin DOMAIN configs.d
                 THEN SetUp("KeyError", ConfigNone, p2, FALSE, FALSE, shown)
                 ELSE IF ~Get(configs.d["tracing"], "enable", TRUE)
                      THEN SetUp("none", configs, p2, FALSE, FALSE, shown)
                 ELSE LET r == start_tracing(configs, gettrace)
                      IN  IF r.raised = "NameError"
                          THEN SetUp("none", ReturnedFalse, p2, FALSE, FALSE, shown)
                          ELSE SetUp(r.raised, configs, p2, r.raised = "none" /\ ~r.warned,
                                     r.settrace, Append(shown, print_call(p2)))

(***************************************************************************)
(* The configs object is shared by reference: what a function of the core  *)
(* leaves in it is the configs it was given with the function's stores     *)
(* applied, a store being an assignment into a section,                    *)
(* configs[section][key] = value.  log_message, output_console,            *)
(* trace_events, start_tracing and manage_logfiles read configs by         *)
(* subscript and by .get only: none of them has a store.                   *)
(***************************************************************************)
CoreFunctions ==
    {"log_message", "output_console", "trace_events", "start_tracing", "manage_logfiles"}

\* A variant in which log_message fills in the tracing flag it does not find.
config_stores_defaulting(function, configs) ==
    IF function = "log_message" /\ "tracing" \in DOMAIN configs.d
           /\ "enable" \notin DOMAIN configs.d["tracing"]
    THEN << [section |-> "tracing", key |-> "enable", value |-> FALSE] >>
    ELSE <<>>

config_stores(function, configs) == <<>>

RECURSIVE Stored(_, _)
Stored(configs, stores) ==
    IF stores = <<>> THEN configs
    ELSE LET s == Head(stores)
             section == configs.d[s.section]
             set == [k \in DOMAIN section \cup {s.key} |->
                        IF k = s.key THEN s.value ELSE section[k]]
         IN  Stored(ConfigDict([configs.d EXCEPT ![s.section] = set]), Tail(stores))

\* One call of a function of the core with a configs dict: the exception that
\* leaves it and the configs as the call leaves them.
core_call(function, configs, event) ==
    LET frame == [co_name |-> "work", file |-> FileStr(TRUE, <<"home", "proj", "x">>),
                  caller |-> "function", args |-> JDict(<<<< <<"k">>, JInt(7) >>>>)]
        env == [cwd |-> ProjectRoot, cwdExists |-> TRUE]
        group == [isDir |-> TRUE,
                  files |-> <<[mtime |-> 10, locked |-> FALSE], [mtime |-> 20, locked |-> FALSE]>>]
        raised ==
            CASE function = "log_message" ->
                    log_message("hello", "CALL", frame.args, FALSE, configs).raised
              [] function = "output_console" ->
                    output_console("hello", "CALL", frame.args, configs).raised
              [] function = "trace_events" ->
                    trace_events(configs, frame, event, NoArg, env).raised
              [] function = "start_tracing" -> start_tracing(configs, NoHook).raised
              [] OTHER ->
                    IF "logging" \notin DOMAIN configs.d THEN "KeyError"
                    ELSE manage_logfiles(configs, <<group>>).raised
    IN  [raised |-> raised, configs |-> Stored(configs, config_stores(function, configs))]

(***************************************************************************)
(* The process: the interpreter's trace slot (sys.gettrace()), the number  *)
(* of sys.settrace calls made so far, and the last operation with what it  *)
(* was given and what came of it.  streak counts the start_tracing calls   *)
(* made in a row; streakHook is the hook that was active when the row      *)
(* began or, failing that, the one its first successful call installed.    *)
(***************************************************************************)
Init ==
    /\ traceHook = NoHook
    /\ settraceCalls = 0
    /\ streak = 0
    /\ streakHook = NoHook
    /\ last = [op |-> "init"]

StartTracing(configs) ==
    /\ settraceCalls < MaxSettrace
    /\ streak < MaxStreak
    /\ LET r == start_tracing(configs, traceHook)
           installed == Hook(configs, settraceCalls + 1)
           base == IF streak = 0 THEN traceHook ELSE streakHook
       IN  /\ traceHook' = IF r.settrace THEN installed ELSE traceHook
           /\ settraceCalls' = IF r.settrace THEN settraceCalls + 1 ELSE settraceCalls
           /\ streak' = streak + 1
           /\ streakHook' = IF base.installed THEN base
                            ELSE IF r.settrace THEN installed ELSE NoHook
           /\ last' = [op |-> "start_tracing", configs |-> configs, gettrace |-> traceHook,
                       raised |-> r.raised, settrace |-> r.settrace, warned |-> r.warned]

\* The interpreter delivers an event to the installed hook; a hook that raises
\* is removed from the trace slot and its exception reaches the traced program.
TraceEvent(frame, event, arg, env) ==
    /\ traceHook.installed
    /\ \E r \in {trace_events(traceHook.configs, frame, event, arg, env)} :
           /\ traceHook' = IF r.raised # "none" THEN NoHook ELSE traceHook
           /\ last' = [op |-> "trace_events", frame |-> frame, event |-> event, arg |-> arg,
                       env |-> env, hookBefore |-> traceHook, raised |-> r.raised,
                       ret |-> r.ret, file |-> r.file, console |-> r.console]
    /\ streak' = 0
    /\ streakHook' = NoHook
    /\ UNCHANGED settraceCalls

DefaultEnv == [cwd |-> ProjectRoot, cwdExists |-> TRUE]

\* The events the interpreter can deliver: the caller matters to a call only,
\* the arguments to a call from a function only, the returned value to a return
\* only, the working directory to a relative __file__ only.
Deliverable(frame, event, arg, env) ==
    /\ event = "call" \/ frame.caller = "none"
    /\ (event = "call" /\ frame.caller = "function") \/ frame.args = JDict(<<>>)
    /\ event = "return" \/ arg = NoArg
    /\ (frame.file.kind = "str" /\ ~frame.file.abs /\ frame.file.parts # <<>>)
           \/ env = DefaultEnv

TraceEnvs == {env \in Envs : env.cwd = ProjectRoot}

TraceInputs ==
    {e \in [frame : Frames, event : {"call", "return", "line"},
            arg : ReturnArgs \cup {NoArg}, env : TraceEnvs] :
        Deliverable(e.frame, e.event, e.arg, e.env)}

Next ==
    \/ \E configs \in Configs : StartTracing(configs)
    \/ \E e \in TraceInputs : TraceEvent(e.frame, e.event, e.arg, e.env)

Spec == Init /\ [][Next]_vars

(***************************************************************************)
(* The functions without process state, each applied once to an input      *)
(* drawn from its bounded set: the initial state holds the pending call,   *)
(* the step applies the function.                                          *)
(***************************************************************************)
Idle ==
    /\ traceHook = NoHook
    /\ settraceCalls = 0
    /\ streak = 0
    /\ streakHook = NoHook

Payloads == {JNull, JDict(<<<< <<"k">>, JInt(7) >>>>), JStr(<<"a">>), DictWithObject, PyCircular}

InitLog ==
    /\ Idle
    /\ \E message \in Messages, category \in Categories, json_data \in Payloads,
          serialize_json \in BOOLEAN, configs \in Configs, calls \in SetupCalls :
            last = [op |-> "pending", message |-> message, category |-> category,
                    json_data |-> json_data, serialize_json |-> serialize_json,
                    configs |-> configs, setup_calls |-> calls]

LogMessage ==
    /\ last.op = "pending"
    /\ LET r == log_message(last.message, last.category, last.json_data,
                            last.serialize_json, last.configs)
       IN  last' = [op |-> "log_message", message |-> last.message,
                    category |-> last.category, json_data |-> last.json_data,
                    serialize_json |-> last.serialize_json, configs |-> last.configs,
                    setup_calls |-> last.setup_calls,
                    raised |-> r.raised, file |-> r.file, console |-> r.console,
                    written |-> logfile_written(r, last.setup_calls)]
    /\ UNCHANGED <<traceHook, settraceCalls, streak, streakHook>>

SpecLog == InitLog /\ [][LogMessage]_vars

InitPaths ==
    /\ Idle
    /\ \E filename \in Filenames, env \in Envs :
            last = [op |-> "pending", filename |-> filename, env |-> env]

IsProjectFile ==
    /\ last.op = "pending"
    /\ LET r == is_project_file(last.filename, last.env)
       IN  last' = [op |-> "is_project_file", filename |-> last.filename, env |-> last.env,
                    raised |-> r.raised, val |-> r.val]
    /\ UNCHANGED <<traceHook, settraceCalls, streak, streakHook>>

SpecPaths == InitPaths /\ [][IsProjectFile]_vars

InitSerialize ==
    /\ Idle
    /\ \E data \in PyValues, verbose \in BOOLEAN :
            last = [op |-> "pending", data |-> data, verbose |-> verbose]

SafeSerialize ==
    /\ last.op = "pending"
    /\ last' = [op |-> "safe_serialize", data |-> last.data, verbose |-> last.verbose,
                result |-> safe_serialize(last.data, last.verbose)]
    /\ UNCHANGED <<traceHook, settraceCalls, streak, streakHook>>

SpecSerialize == InitSerialize /\ [][SafeSerialize]_vars

InitSanitize ==
    /\ Idle
    /\ \E line \in Lines : last = [op |-> "pending", line |-> line]

SanitizeTokenString ==
    /\ last.op = "pending"
    /\ last' = [op |-> "sanitize_token_string", line |-> last.line,
                result |-> sanitize_token_string(last.line)]
    /\ UNCHANGED <<traceHook, settraceCalls, streak, streakHook>>

SpecSanitize == InitSanitize /\ [][SanitizeTokenString]_vars

InitLogfiles ==
    /\ Idle
    /\ \E configs \in LogConfigs, tree \in LogTrees :
            last = [op |-> "pending", configs |-> configs, tree |-> tree]

ManageLogfiles ==
    /\ last.op = "pending"
    /\ last' = [op |-> "manage_logfiles", configs |-> last.configs, tree |-> last.tree,
                result |-> manage_logfiles(last.configs, last.tree)]
    /\ UNCHANGED <<traceHook, settraceCalls, streak, streakHook>>

SpecLogfiles == InitLogfiles /\ [][ManageLogfiles]_vars

InitDirectories ==
    /\ Idle
    /\ \E configs \in DirectoryConfigs, dirs \in Directories :
            last = [op |-> "pending", configs |-> configs, dirs |-> dirs]

ManageDirectories ==
    /\ last.op = "pending"
    /\ last' = [op |-> "manage_logfiles", configs |-> last.configs, dirs |-> last.dirs,
                result |-> manage_directories(last.configs, last.dirs)]
    /\ UNCHANGED <<traceHook, settraceCalls, streak, streakHook>>

SpecDirectories == InitDirectories /\ [][ManageDirectories]_vars

InitCore ==
    /\ Idle
    /\ \E function \in CoreFunctions, configs \in Configs \ {ConfigNone},
          event \in {"call", "return"} :
            last = [op |-> "pending", function |-> function, configs |-> configs,
                    event |-> event]

CoreCall ==
    /\ last.op = "pending"
    /\ LET r == core_call(last.function, last.configs, last.event)
       IN  last' = [op |-> "core_call", function |-> last.function,
                    configs |-> last.configs, event |-> last.event,
                    raised |-> r.raised, after |-> r.configs]
    /\ UNCHANGED <<traceHook, settraceCalls, streak, streakHook>>

SpecCore == InitCore /\ [][CoreCall]_vars

(***************************************************************************)
(* The set-up of a process: scripts call tracing.setup_logging, some call  *)
(* trace_utils.start_tracing themselves, and any code prints.  last keeps  *)
(* the process (proc), the number of setup_logging calls, whether a        *)
(* start_tracing call has gone past its configs check, and what the first  *)
(* setup_logging call that returned left behind.                           *)
(***************************************************************************)
InitSetup ==
    /\ Idle
    /\ last = [op |-> "init", configs |-> ConfigNone, raised |-> "none",
               returned |-> ConfigNone, printed |-> <<>>, proc |-> FreshProcess,
               setups |-> 0, started |-> FALSE,
               first |-> [set |-> FALSE, CONFIGS |-> ConfigNone, logger |-> "None",
                          hook |-> NoHook]]

SetupLogging(configs) ==
    /\ last.setups < MaxSetup
    /\ LET r == setup_logging_call(last.proc, configs, traceHook)
           hook == IF r.settrace THEN Hook(configs, settraceCalls + 1) ELSE traceHook
       IN  /\ traceHook' = hook
           /\ settraceCalls' = IF r.settrace THEN settraceCalls + 1 ELSE settraceCalls
           /\ last' = [op |-> "setup_logging", configs |-> configs, raised |-> r.raised,
                       returned |-> r.returned, printed |-> r.printed, proc |-> r.proc,
                       setups |-> last.setups + 1, started |-> last.started \/ r.ran,
                       first |-> IF last.first.set \/ r.raised # "none" THEN last.first
                                 ELSE [set |-> TRUE, CONFIGS |-> r.proc.CONFIGS,
                                       logger |-> r.proc.logger, hook |-> hook]]
    /\ UNCHANGED <<streak, streakHook>>

\* A script calls trace_utils.start_tracing(configs) itself.
StartTracingAlone(configs) ==
    /\ LET r == start_tracing(configs, traceHook)
       IN  /\ traceHook' = IF r.settrace THEN Hook(configs, settraceCalls + 1) ELSE traceHook
           /\ settraceCalls' = IF r.settrace THEN settraceCalls + 1 ELSE settraceCalls
           /\ last' = [last EXCEPT !.op = "start_tracing", !.configs = configs,
                                   !.raised = r.raised, !.returned = ConfigNone,
                                   !.printed = IF r.warned THEN <<print_call(last.proc)>>
                                               ELSE <<>>,
                                   !.started = last.started
                                                   \/ (r.raised = "none" /\ ~r.warned)]
    /\ UNCHANGED <<streak, streakHook>>

\* Code that knows nothing of the tracer calls print.
PrintCall ==
    /\ last.op # "print"
    /\ last' = [last EXCEPT !.op = "print", !.configs = ConfigNone, !.raised = "none",
                            !.returned = ConfigNone,
                            !.printed = <<print_call(last.proc)>>]
    /\ UNCHANGED <<traceHook, settraceCalls, streak, streakHook>>

NextSetup ==
    \/ \E configs \in SetupConfigs : SetupLogging(configs)
    \/ \E configs \in SetupConfigs : StartTracingAlone(configs)
    \/ PrintCall

SpecSetup == InitSetup /\ [][NextSetup]_vars

(***************************************************************************)
(* The claims.                                                             *)
(***************************************************************************)

\* Whether start_tracing's conditions for an install are met by the configs.
Enabled(configs) ==
    /\ Truthy(configs)
    /\ {"logging", "tracing"} \subseteq DOMAIN configs.d
    /\ Get(configs.d["tracing"], "enable", TRUE)

LacksLogging(configs) == ~Truthy(configs) \/ "logging" \notin DOMAIN configs.d

\* A path lies under the project root: the root is a proper prefix of it.
UnderRoot(path) ==
    Len(path) > Len(ProjectRoot) /\ SubSeq(path, 1, Len(ProjectRoot)) = ProjectRoot

\* The absolute, ".."-free form of a str filename in an environment.
Located(f, env) == Normalize(<<>>, IF f.abs THEN f.parts ELSE env.cwd \o f.parts)

OnProjectFile ==
    /\ last.op = "trace_events"
    /\ last.event \in {"call", "return"}
    /\ last.frame.file.kind = "str"
    /\ (last.frame.file.abs \/ last.env.cwdExists)
    /\ UnderRoot(Located(last.frame.file, last.env))

\* C1: a call or return event delivered to the installed hook for a project
\* file never lets an exception out of the hook, and the hook that handled it
\* is still the installed one afterwards.
C1_HookContainsFaults ==
    OnProjectFile => last.raised = "none" /\ traceHook = last.hookBefore

\* C2: log_message never raises, whatever configs argument it is given
\* (None, empty, or lacking a section or a key included).
C2_LogMessageNeverRaises ==
    last.op = "log_message" => last.raised = "none"

\* C3: start_tracing calls sys.settrace only when tracing.enable is true (the
\* value the code reads, true when the key is absent) and sys.gettrace() is
\* None; with tracing.enable false it never calls it; a call made while a hook
\* is installed leaves that hook in place; and after two or more start_tracing
\* calls in a row the installed hook is the one that was active when the row
\* began or, failing that, the one its first successful call installed.
C3_InstallOnce ==
    /\ last.op = "start_tracing" =>
          /\ last.settrace => Enabled(last.configs) /\ ~last.gettrace.installed
          /\ (Truthy(last.configs) /\ "tracing" \in DOMAIN last.configs.d
                 /\ ~Get(last.configs.d["tracing"], "enable", TRUE)) => ~last.settrace
          /\ last.gettrace.installed => traceHook = last.gettrace
          /\ ~last.settrace => traceHook = last.gettrace
          /\ last.settrace => traceHook.installed /\ traceHook.configs = last.configs
    /\ streak >= 2 => traceHook = streakHook

\* A second start_tracing, with other configs that would install, finds the
\* first hook active and leaves it.
C3_Witness ==
    /\ last.op = "start_tracing"
    /\ streak >= 2
    /\ Enabled(last.configs)
    /\ last.gettrace.installed
    /\ traceHook.installed
    /\ traceHook.configs # last.configs
    /\ ~last.settrace

\* C4: start_tracing with configs that lack the logging section (None and {}
\* included) installs nothing and raises nothing.
C4_NoLoggingNoOp ==
    (last.op = "start_tracing" /\ LacksLogging(last.configs)) =>
        last.raised = "none" /\ ~last.settrace /\ traceHook = last.gettrace

\* C5: an event of a frame whose function is log_message or a handler's emit
\* produces no record, neither in the log file nor on the console.
C5_EmittersUntraced ==
    (last.op = "trace_events" /\ last.frame.co_name \in {"log_message", "emit"}) =>
        last.file = <<>> /\ last.console = <<>>

\* C6: is_project_file is false for None and for "", and for a path it is
\* true exactly when the path lies under the project root.
C6_UnderRootOnly ==
    last.op = "is_project_file" =>
        /\ ~FileTruthy(last.filename) => last.raised = "none" /\ ~last.val
        /\ (last.filename.kind = "str" /\ (last.filename.abs \/ last.env.cwdExists)) =>
              /\ last.raised = "none"
              /\ last.val <=> (FileTruthy(last.filename)
                                  /\ UnderRoot(Located(last.filename, last.env)))

\* A file more than one directory below the root is classified as the project's.
C6_Witness ==
    /\ last.op = "is_project_file"
    /\ last.filename.kind = "str"
    /\ last.filename.abs
    /\ Len(Located(last.filename, last.env)) > Len(ProjectRoot) + 1
    /\ last.val

\* C7: is_project_file never raises, whatever goes wrong in resolving the path.
C7_ResolutionNeverRaises ==
    last.op = "is_project_file" => last.raised = "none"

\* C8: for a JSON-encodable value, safe_serialize returns normally and the
\* text it returns decodes as JSON to an equal value.
C8_RoundTrip ==
    (last.op = "safe_serialize" /\ last.data \in JsonValues) =>
        /\ last.result.raised = "none"
        /\ json_loads(last.result.text) = [raised |-> "none", val |-> last.data]

\* C9: for a value whose encoding fails, safe_serialize returns normally and
\* what it returns is the sentinel "[Unserializable data]".
C9_SentinelOnFailure ==
    (last.op = "safe_serialize" /\ last.data \in Unencodable) =>
        last.result.raised = "none" /\ last.result.text = UNSERIALIZABLE

\* C10: safe_serialize with verbose and without it either both fail or both
\* succeed, and when the encoding fails both return the same sentinel.
C10_VerboseFormatsOnly ==
    last.op = "safe_serialize" =>
        LET other == safe_serialize(last.data, ~last.verbose)
        IN  /\ last.result.raised = other.raised
            /\ (last.result.text = UNSERIALIZABLE) <=> (other.text = UNSERIALIZABLE)
            /\ last.data \in Unencodable => last.result.text = other.text

\* The line has a comment token, and the column it starts at.
HasComment(line) ==
    \E i \in 1..Len(generate_tokens(line).toks) : generate_tokens(line).toks[i].type = "COMMENT"

CommentStart(line) ==
    LET toks == generate_tokens(line).toks
    IN  toks[CHOOSE i \in 1..Len(toks) : toks[i].type = "COMMENT"].start

\* The line up to its comment.
CodePart(line) == IF HasComment(line) THEN SubSeq(line, 1, CommentStart(line) - 1) ELSE line

\* The loop over the tokens ends in an exception.
TokenizingFails(line) ==
    LET t == generate_tokens(line)
    IN  token_loop(t.toks, t.err, [isList |-> TRUE, text |-> <<>>], FALSE).raised # "none"

\* C11: sanitize_token_string returns the str that is the line cut at its
\* first comment token and stripped: the code of a line with a trailing
\* comment, the stripped text of a line without one, "" for a full-line
\* comment and for "".
C11_CutsAtComment ==
    last.op = "sanitize_token_string" =>
        last.result = PyStrResult(StripChars(CodePart(last.line)))

\* C12: for a line without a comment token, sanitize_token_string returns a
\* str, and applying it to that str returns the same str again.
C12_Idempotent ==
    (last.op = "sanitize_token_string" /\ ~HasComment(last.line)) =>
        /\ last.result.pytype = "str"
        /\ sanitize_token_string(last.result.text) = last.result

\* A comment-free line of several tokens that sanitizing changes.
C12_Witness ==
    /\ last.op = "sanitize_token_string"
    /\ ~HasComment(last.line)
    /\ Len(generate_tokens(last.line).toks) > 3
    /\ last.result.text # last.line

\* C13: sanitize_token_string never raises, and when tokenizing or joining
\* fails it returns line.strip().
C13_FallsBackToStrip ==
    last.op = "sanitize_token_string" =>
        /\ last.result.raised = "none"
        /\ TokenizingFails(last.line) => last.result = PyStrResult(StripChars(last.line))

\* A line the tokenizer rejects, with blanks to strip.
C13_Witness ==
    /\ last.op = "sanitize_token_string"
    /\ generate_tokens(last.line).err
    /\ ~HasComment(last.line)
    /\ StripChars(last.line) # last.line
    /\ last.result.text = StripChars(last.line)

\* The files of entry e among the pairs of fs, as a set of file indices.
Of(fs, e) == {fs[k][2] : k \in {j \in 1..Len(fs) : fs[j][1] = e}}

\* The excess of entry e: how many files it holds beyond the configured limit.
Excess(configs, entry) ==
    IF ~entry.isDir THEN 0
    ELSE LET n == Len(entry.files) - Get(configs.d["logging"], "max_logfiles", max_logfiles)
         IN  IF n > 0 THEN n ELSE 0

\* C14: for every log group with N files and limit M, manage_logfiles picks
\* N - M files when N > M and none otherwise, every picked file is at most as
\* recent as every file it leaves, and the files deleted are the picked ones
\* whose unlink succeeds (all N - M of them when none fails).
C14_DeletesOldestExcess ==
    (last.op = "manage_logfiles" /\ last.result.raised = "none") =>
        \A e \in 1..Len(last.tree) :
            LET files == last.tree[e].files
                picked == Of(last.result.attempted, e)
                deleted == Of(last.result.deleted, e)
            IN  /\ Cardinality(picked) = Excess(last.configs, last.tree[e])
                /\ \A i \in picked, j \in (1..Len(files)) \ picked :
                       files[i].mtime <= files[j].mtime
                /\ deleted = {i \in picked : ~files[i].locked}

\* A group listed newest first loses its two oldest files.
C14_Witness ==
    /\ last.op = "manage_logfiles"
    /\ last.result.raised = "none"
    /\ \E e \in 1..Len(last.tree) :
          /\ Len(last.tree[e].files) >= 3
          /\ last.tree[e].files[1].mtime > last.tree[e].files[3].mtime
          /\ Cardinality(Of(last.result.deleted, e)) = Excess(last.configs, last.tree[e])
          /\ Excess(last.configs, last.tree[e]) >= 2

\* C15: manage_logfiles returns the list of the files it removed.
C15_ReturnsRemoved ==
    (last.op = "manage_logfiles" /\ last.result.raised = "none") =>
        last.result.returned = [t |-> "list", items |-> last.result.deleted]

\* C16: given configs, a failing unlink never leaves manage_logfiles as an
\* exception; it is reported as a warning, and every excess file of every
\* group is attempted whatever failed before it.
C16_BestEffortDeletion ==
    (last.op = "manage_logfiles" /\ last.configs.kind = "dict") =>
        /\ last.result.raised = "none"
        /\ \A e \in 1..Len(last.tree) :
              /\ Cardinality(Of(last.result.attempted, e)) = Excess(last.configs, last.tree[e])
              /\ Of(last.result.warnings, e)
                    = {i \in Of(last.result.attempted, e) : last.tree[e].files[i].locked}

\* The first unlink fails; the same group's next excess file and the next
\* group's excess file are removed all the same.
C16_Witness ==
    /\ last.op = "manage_logfiles"
    /\ Len(last.result.attempted) >= 3
    /\ last.result.warnings # <<>>
    /\ last.result.warnings[1] = last.result.attempted[1]
    /\ last.result.attempted[1][1] = 1
    /\ \E k \in 2..Len(last.result.deleted) :
          /\ last.result.deleted[1][1] = 1
          /\ last.result.deleted[k][1] = 2

\* The configs carry what log_message reads before it picks a sink.
HasNames(configs) ==
    /\ Truthy(configs)
    /\ {"logging", "tracing"} \subseteq DOMAIN configs.d
    /\ {"package_name", "module_name"} \subseteq DOMAIN configs.d["logging"]

Flag(configs, section) == Get(configs.d[section], "enable", FALSE)

\* A log_message call with a non-blank message, complete configs and a
\* payload that serialize_json, if asked for, can encode.
LoggedCall ==
    /\ last.op = "log_message"
    /\ HasNames(last.configs)
    /\ Strip(last.message) # ""
    /\ (last.serialize_json /\ PyTruthy(last.json_data)) =>
           json_dumps(last.json_data, "compact", FALSE).raised = "none"

\* C17: with logging.enable true and tracing.enable false, output_logfile is
\* called exactly once, with the message and with the payload when there is
\* one, and output_console is not called.
C17_FileOnly ==
    (LoggedCall /\ Flag(last.configs, "logging") /\ ~Flag(last.configs, "tracing")) =>
        /\ last.raised = "none"
        /\ Len(last.file) = 1
        /\ last.file[1].message = last.message
        /\ last.file[1].hasPayload = PyTruthy(last.json_data)
        /\ PyTruthy(last.json_data) =>
              last.file[1].payload
                  = (IF last.serialize_json
                     THEN JStr(json_dumps(last.json_data, "compact", FALSE).text)
                     ELSE last.json_data)
        /\ last.console = <<>>

\* A message with a payload goes to the file alone.
C17_Witness ==
    /\ LoggedCall
    /\ Flag(last.configs, "logging")
    /\ ~Flag(last.configs, "tracing")
    /\ PyTruthy(last.json_data)
    /\ Len(last.file) = 1
    /\ last.console = <<>>

\* C18: with tracing.enable true (and a colors section to pick from) the
\* message is printed on the console; with logging.enable and tracing.enable
\* both false nothing is printed and nothing is written to the log file.
C18_ConsoleByTracing ==
    LoggedCall =>
        /\ (Flag(last.configs, "tracing") /\ "colors" \in DOMAIN last.configs.d) =>
              /\ last.console # <<>>
              /\ last.console[1].message = last.message
        /\ (~Flag(last.configs, "logging") /\ ~Flag(last.configs, "tracing")) =>
              /\ last.raised = "none"
              /\ last.file = <<>>
              /\ last.console = <<>>
              /\ last.written = <<>>

\* Tracing on, logging off: the console gets the message.
C18_Witness ==
    /\ LoggedCall
    /\ Flag(last.configs, "tracing")
    /\ ~Flag(last.configs, "logging")
    /\ last.raised = "none"
    /\ last.console # <<>>
    /\ last.console[1].message = last.message

\* C19: with logging.enable and tracing.enable both true, one call hands the
\* message to output_logfile and to output_console.
C19_BothSinks ==
    (LoggedCall /\ "colors" \in DOMAIN last.configs.d
        /\ Flag(last.configs, "logging") /\ Flag(last.configs, "tracing")) =>
        /\ last.file # <<>>
        /\ last.console # <<>>

\* C20: with logging.enable false nothing of a log_message call reaches the
\* log file, whatever tracing.enable is and wherever print goes.
C20_NoFileWhenDisabled ==
    (last.op = "log_message" /\ Truthy(last.configs) /\ "logging" \in DOMAIN last.configs.d
        /\ ~Flag(last.configs, "logging")) =>
        last.written = <<>>

(***************************************************************************)
(* The trace hook, event by event.                                         *)
(***************************************************************************)

\* The frame of the event has no file (None or ""), or its file resolves to a
\* path that is not under the project root.
OffProject ==
    /\ last.op = "trace_events"
    /\ \/ ~FileTruthy(last.frame.file)
       \/ /\ last.frame.file.kind = "str"
          /\ last.frame.file.abs \/ last.env.cwdExists
          /\ ~UnderRoot(Located(last.frame.file, last.env))

\* C24: for an event of a frame whose file is missing or is not a project
\* file, the hook emits no record and returns None, not itself.
C24_OffProjectUntraced ==
    OffProject =>
        /\ last.raised = "none"
        /\ last.ret = "None"
        /\ last.file = <<>> /\ last.console = <<>>

\* A call of a traceable function defined in a file outside the project.
C24_Witness ==
    /\ OffProject
    /\ last.frame.file.kind = "str"
    /\ last.frame.co_name \notin excluded_functions
    /\ last.event = "call"
    /\ last.frame.caller = "function"
    /\ last.ret = "None"

\* The hook's configs let log_message reach a sink: they are complete, they
\* have colors for the console, and logging or tracing is enabled.
Emitting(configs) ==
    /\ HasNames(configs)
    /\ "colors" \in DOMAIN configs.d
    /\ Flag(configs, "logging") \/ Flag(configs, "tracing")

\* What the console shows of a payload.
Shown(payload) ==
    IF payload.t = "str" THEN payload.v ELSE json_dumps(payload, "indent", FALSE).text

\* The records of the last event are exactly those of the messages msgs, in
\* order, the last of them carrying the payload (when the payload is not
\* empty) and the others none; they are in the log file or on the console.
Emitted(msgs, payload) ==
    LET lines(kind) == SelectSeq(last.console, LAMBDA l : l.kind = kind)
    IN  \/ /\ last.console = <<>>
           /\ Len(last.file) = Len(msgs)
           /\ \A k \in DOMAIN msgs :
                 /\ last.file[k].message = msgs[k]
                 /\ last.file[k].hasPayload = (k = Len(msgs) /\ PyTruthy(payload))
                 /\ last.file[k].hasPayload => last.file[k].payload = payload
        \/ /\ last.file = <<>>
           /\ [k \in DOMAIN lines("message") |-> lines("message")[k].message] = msgs
           /\ [k \in DOMAIN lines("payload") |-> lines("payload")[k].text]
                 = (IF PyTruthy(payload) THEN <<Shown(payload)>> ELSE <<>>)
           /\ last.console # <<>> => last.console[Len(last.console)].kind
                                        = (IF PyTruthy(payload) THEN "payload" ELSE "message")

\* An event of a traceable function of a project file, delivered to a hook
\* whose configs reach a sink.
TracedEvent(event) ==
    /\ OnProjectFile
    /\ last.frame.co_name \notin {"emit", "log_message"}
    /\ last.event = event
    /\ Emitting(last.hookBefore.configs)

\* C25: a call event of a traceable function of a project file logs nothing
\* when there is no caller frame; otherwise it emits exactly two CALL
\* records, the bare invocation and then the caller-to-callee line: without
\* payload when the caller is module scope, and with the mapping of the
\* parameters to their values as payload when the caller is a function, the
\* sentinel in its place when the mapping cannot be serialized.
C25_TwoCallRecords ==
    TracedEvent("call") =>
        CASE last.frame.caller = "none" -> last.file = <<>> /\ last.console = <<>>
          [] last.frame.caller = "module" ->
                Emitted(<<"[CALL] caller ( line )",
                          "[CALL] module[n] ( line ) -> callee (fn)[n]">>, JNull)
          [] OTHER ->
                \/ /\ last.frame.args \in JsonValues
                   /\ Emitted(<<"[CALL] caller ( line )",
                                "[CALL] caller (fn)[n] -> callee (fn)[n]">>, last.frame.args)
                \/ /\ last.frame.args \in Unencodable
                   /\ Emitted(<<"[CALL] caller ( line )",
                                "[CALL] caller (fn)[n] -> callee (fn)[n]">>,
                              JStr(UNSERIALIZABLE))
                \/ /\ last.frame.args \notin JsonValues \cup Unencodable
                   /\ last.raised = "none"

\* C26: a return event of a traceable function of a project file emits
\* exactly one RETURN record whose payload is the returned value: its
\* attribute mapping when it has a __dict__, what safe_serialize makes of it
\* otherwise.
C26_OneReturnRecord ==
    TracedEvent("return") =>
        /\ last.raised = "none"
        /\ Emitted(<<"[RETURN] file[n] ( line ) -> RETURN VALUE (Type):">>,
                   IF last.arg.hasDict THEN last.arg.vars
                   ELSE JStr(safe_serialize(last.arg.value, FALSE).text))

(***************************************************************************)
(* The record of the file sink.                                            *)
(***************************************************************************)

\* C27: the record output_logfile writes is the message alone when there is
\* no payload and otherwise the message, a newline and the payload; for a
\* dict payload given to log_message the payload part is JSON text that
\* decodes to a value equal to that dict.
C27_PayloadIsJson ==
    (LoggedCall /\ last.file # <<>>) =>
        /\ last.file[1].message = last.message
        /\ ~PyTruthy(last.json_data) => last.file[1].appended = <<>>
        /\ PyTruthy(last.json_data) =>
              /\ last.file[1].appended # <<>>
              /\ Head(last.file[1].appended) = NL
        /\ (last.json_data.t = "dict" /\ last.json_data.v # <<>>) =>
              json_loads(Tail(last.file[1].appended))
                  = [raised |-> "none", val |-> last.json_data]

\* C28: the file-sink record of a log_message call has the severity its
\* category maps to: CALL INFO, RETURN DEBUG, IMPORT WARNING, a level name
\* itself, anything else INFO.
C28_SeverityByCategory ==
    (last.op = "log_message" /\ last.file # <<>>) =>
        last.file[1].level = log_levels(last.category)

(***************************************************************************)
(* The set-up of the process.                                              *)
(***************************************************************************)

\* C21: once start_tracing has run, every print call of the process reaches
\* the file sink of the structured logger.
C21_PrintReachesFile ==
    (last.op = "print" /\ last.started) => "ANSIFileHandler" \in last.printed[1]

\* C22: a setup_logging call made after the first one that returned leaves the
\* configuration record, the logger and the installed trace hook of that
\* first call in place.
C22_FirstCallerWins ==
    (last.op = "setup_logging" /\ last.first.set) =>
        /\ last.proc.CONFIGS = last.first.CONFIGS
        /\ last.proc.logger = last.first.logger
        /\ (last.first.hook.installed => traceHook = last.first.hook)

\* C29: after a setup_logging call that returns, its logger has exactly one
\* file handler and exactly one console handler.
C29_OneHandlerEach ==
    (last.op = "setup_logging" /\ last.raised = "none") =>
        LET hs == last.proc.handlers[last.proc.logger]
        IN  /\ Cardinality({k \in DOMAIN hs : hs[k] = "ANSIFileHandler"}) = 1
            /\ Cardinality({k \in DOMAIN hs : hs[k] = "PrintCapture"}) = 1

(***************************************************************************)
(* The rotation over the directories.                                      *)
(***************************************************************************)

\* The limit a rotation honours: logging.max_logfiles, or the default.
Limit(configs) == Get(configs.d["logging"], "max_logfiles", max_logfiles)

\* The positions of the log files a group holds directly.
LogsOf(group) ==
    {k \in DOMAIN group.children :
        group.children[k].suffix = ".log" /\ ~group.children[k].nested}

\* The children of entry e that the rotation deleted.
Gone(e) == {last.result.deleted[k][2] : k \in {j \in DOMAIN last.result.deleted :
                                                  last.result.deleted[j][1] = e}}

\* C30: when manage_logfiles completes and every deletion succeeds, each
\* group is left with at most max_logfiles log files, and nothing is deleted
\* but the excess oldest log files of the groups: no entry of the base
\* directory itself, no file of a deeper directory, no file of another suffix.
C30_OnlyExcessLogsGo ==
    (last.op = "manage_logfiles" /\ last.result.raised = "none"
        /\ last.result.warnings = <<>>) =>
        \A e \in DOMAIN last.dirs :
            LET group == last.dirs[e]
                logs == LogsOf(group)
            IN  /\ Gone(e) \subseteq logs
                /\ ~group.isDir => Gone(e) = {}
                /\ Cardinality(logs \ Gone(e)) <= Limit(last.configs)
                /\ Cardinality(Gone(e))
                      = (IF Cardinality(logs) > Limit(last.configs)
                         THEN Cardinality(logs) - Limit(last.configs) ELSE 0)
                /\ \A g \in Gone(e), k \in logs \ Gone(e) :
                      group.children[g].mtime <= group.children[k].mtime

\* A group loses its oldest log file and keeps an older text file and an
\* older log file of a deeper directory.
C30_Witness ==
    /\ last.op = "manage_logfiles"
    /\ last.result.raised = "none"
    /\ last.result.warnings = <<>>
    /\ \E e \in DOMAIN last.dirs :
          LET cs == last.dirs[e].children
          IN  /\ Gone(e) # {}
              /\ \E t, n \in DOMAIN cs \ Gone(e) :
                    /\ cs[t].suffix = ".txt"
                    /\ cs[n].nested
                    /\ \A g \in Gone(e) : cs[t].mtime <= cs[g].mtime /\ cs[n].mtime <= cs[g].mtime

(***************************************************************************)
(* The configs in the hands of the core.                                   *)
(***************************************************************************)

====
